---- MODULE Spec2Model ----
(***************************************************************************)
(* A model of process_markdown.py: the MarkdownProcessor batch converter.  *)
(*                                                                         *)
(* Text is a sequence of tokens.  Every token is one character or a run of *)
(* characters of one regular-expression class (a run of word characters,   *)
(* such as "h" for http/https or "md"), so that the character classes,     *)
(* lookbehinds and lookaheads of the source's patterns are decided by the  *)
(* tokens next to a position.  The three pieces of the anchor markup that  *)
(* process_links emits are tokens of their own (AOPEN, AMID, ACLOSE).      *)
(***************************************************************************)
EXTENDS Integers, Sequences, FiniteSets, TLC

VARIABLES
    pc,              \* position of the process: idle, or the next stage of run()
    runs,            \* number of invocations of main() so far
    now,             \* the wall clock, datetime.now()
    db_file,         \* the aggregate file posts.db on disk
    post_files,      \* the post_<id>.json files on disk: id -> post
    index_files,     \* index.json (page 1) and index_<n>.json on disk: n -> page
    assets_dir,      \* the file names in db/assets/images/posts
    existing_posts,  \* self.existing_posts of the running process: id -> post
    md_left,         \* how many scanned files the loop of run() has still to visit
    hist,            \* what the current (or last) run has observed and done
    arg,             \* argument of the function a function-level specification calls
    ret              \* its result

vars == <<pc, runs, now, db_file, post_files, index_files, assets_dir,
          existing_posts, md_left, hist, arg, ret>>

diskVars == <<db_file, post_files, index_files, assets_dir>>
runVars == <<runs, now, existing_posts, md_left, hist>>

-----------------------------------------------------------------------------
(* Bounds of the model.                                                    *)

MaxTitleLen == 4
MaxPieces == 5
MaxImagePieces == 5
MaxRuns == 2
MaxDocs == 2
MaxPosts == 22

-----------------------------------------------------------------------------
(* Tokens and their character classes.                                     *)

AOPEN == "<a href=\""
AMID == "\" target=\"_blank\" rel=\"noopener noreferrer\">"
ACLOSE == "</a>"
QUOTE == "\""

Digits == {"0", "1", "2", "3", "4", "5", "6", "7", "8", "9"}
LowerWord == {"a", "b", "h", "md", "db", "assets", "images", "posts"}
UpperWord == {"B"}
\* \w of a str pattern: letters (any script), digits and the underscore
WordToks == LowerWord \cup UpperWord \cup Digits \cup {"_", "e-acute"}
SpaceToks == {" "}

Min(S) == CHOOSE x \in S : \A y \in S : x <= y
Max(S) == CHOOSE x \in S : \A y \in S : x >= y

\* the first index j >= from with s[j] = tok, or 0
FirstAt(s, from, tok) ==
    LET S == {j \in from..Len(s) : s[j] = tok}
    IN  IF S = {} THEN 0 ELSE Min(S)

StartsWith(s, p) == Len(s) >= Len(p) /\ SubSeq(s, 1, Len(p)) = p

\* str.replace(old, new) for a non-empty old: every occurrence, left to right
RECURSIVE Replace(_, _, _)
Replace(s, old, new) ==
    IF Len(s) < Len(old) THEN s
    ELSE IF StartsWith(s, old)
         THEN new \o Replace(SubSeq(s, Len(old) + 1, Len(s)), old, new)
         ELSE <<Head(s)>> \o Replace(Tail(s), old, new)

RECURSIVE Flatten(_)
Flatten(ss) == IF ss = <<>> THEN <<>> ELSE Head(ss) \o Flatten(Tail(ss))

\* the sequences over S of length at most n
SeqUpTo(S, n) == UNION {[1..k -> S] : k \in 0..n}

-----------------------------------------------------------------------------
(* extract_title_from_filename and create_slug_from_title.                 *)

DOT_MD == <<".", "md">>

extract_title_from_filename(filename) == Replace(filename, DOT_MD, <<>>)

\* str.lower()
Lower(c) == IF c = "B" THEN "b" ELSE c

\* the characters re.sub(r'[^a-z0-9-]', '', slug) keeps
SlugChar(c) == c \in LowerWord \cup Digits \cup {"-"}

\* .replace(' ', '-').replace('_', '-') of the lowercased title
Dashed(title) ==
    [i \in 1..Len(title) |->
        IF Lower(title[i]) \in {" ", "_"} THEN "-" ELSE Lower(title[i])]

\* re.sub(r'[^a-z0-9-]', '', slug)
RECURSIVE OnlySlugChars(_)
OnlySlugChars(s) ==
    IF s = <<>> THEN <<>>
    ELSE IF SlugChar(Head(s)) THEN <<Head(s)>> \o OnlySlugChars(Tail(s))
         ELSE OnlySlugChars(Tail(s))

\* re.sub(r'-+', '-', slug)
RECURSIVE CollapseDashes(_)
CollapseDashes(s) ==
    IF Len(s) < 2 THEN s
    ELSE IF s[1] = "-" /\ s[2] = "-" THEN CollapseDashes(Tail(s))
         ELSE <<Head(s)>> \o CollapseDashes(Tail(s))

\* slug.strip('-')
RECURSIVE StripDashes(_)
StripDashes(s) ==
    IF s = <<>> THEN s
    ELSE IF Head(s) = "-" THEN StripDashes(Tail(s))
    ELSE IF s[Len(s)] = "-" THEN StripDashes(SubSeq(s, 1, Len(s) - 1))
    ELSE s

DigitSeq == <<"0", "1", "2", "3", "4", "5", "6", "7", "8", "9">>
Digit(n) == DigitSeq[n + 1]

\* A timestamp is a day number; a negative one stands for a created_at string
\* that datetime.fromisoformat rejects.  strftime('%Y%m%d') of day t:
strftime(t) ==
    <<"2", "0", "2", "4", "0", Digit(1 + ((t \div 28) % 9)),
      Digit(((t % 28) + 1) \div 10), Digit(((t % 28) + 1) % 10)>>

ValidTimestamp(t) == t >= 0

create_slug_from_title(title, created_at, clock) ==
    LET slug == StripDashes(CollapseDashes(OnlySlugChars(Dashed(title))))
        date_stamp == IF ValidTimestamp(created_at) THEN strftime(created_at)
                      ELSE strftime(clock)
    IN  slug \o <<"-">> \o date_stamp

-----------------------------------------------------------------------------
(* The function-level specification of create_slug_from_title.             *)

TitleChars == {"a", "B", "7", " ", "_", "-", "!", "e-acute"}
SlugTimestamps == {0, 40}

InitSlug ==
    /\ pc = "call_slug"
    /\ arg \in {[title |-> t, created_at |-> c] :
                    t \in SeqUpTo(TitleChars, MaxTitleLen) \ {<<>>},
                    c \in SlugTimestamps}
    /\ ret = <<>>
    /\ runs = 0 /\ now = 0 /\ md_left = 0
    /\ db_file = [kind |-> "absent"] /\ post_files = <<>> /\ index_files = <<>>
    /\ assets_dir = {} /\ existing_posts = <<>> /\ hist = <<>>

CallSlug ==
    /\ pc = "call_slug"
    /\ ret' = create_slug_from_title(arg.title, arg.created_at, now)
    /\ pc' = "slug_done"
    /\ UNCHANGED <<arg, diskVars, runVars>>

SpecSlug == InitSlug /\ [][CallSlug]_vars

\* C3: every slug create_slug_from_title returns is non-empty, made of [a-z0-9-]
\* only, without two consecutive dashes, without a leading or trailing dash, and
\* ends with an 8-digit date stamp, also for a title without ASCII letter or digit.
C3_SlugWellFormed ==
    pc = "slug_done" =>
        /\ Len(ret) >= 8
        /\ \A i \in 1..Len(ret) : ret[i] \in LowerWord \cup Digits \cup {"-"}
        /\ \A i \in 1..(Len(ret) - 1) : ~(ret[i] = "-" /\ ret[i + 1] = "-")
        /\ ret[1] # "-"
        /\ ret[Len(ret)] # "-"
        /\ \A i \in (Len(ret) - 7)..Len(ret) : ret[i] \in Digits

-----------------------------------------------------------------------------
(* process_images.                                                         *)

\* image_pattern = r'!\[([^\]]*)\]\(([^)]+)\)' tried at position i: the index of
\* the closing parenthesis of the match, or 0
ImageMatchEnd(s, i) ==
    IF i + 1 <= Len(s) /\ s[i] = "!" /\ s[i + 1] = "["
    THEN LET j == FirstAt(s, i + 2, "]")
         IN  IF j = 0 \/ j + 1 > Len(s) \/ s[j + 1] # "(" THEN 0
             ELSE LET k == FirstAt(s, j + 2, ")")
                  IN  IF k = 0 \/ k = j + 2 THEN 0 ELSE k
    ELSE 0

\* re.findall(image_pattern, content) from position i on: <<alt_text, image_path>>
RECURSIVE FindImages(_, _)
FindImages(s, i) ==
    IF i > Len(s) THEN <<>>
    ELSE LET k == ImageMatchEnd(s, i)
         IN  IF k = 0 THEN FindImages(s, i + 1)
             ELSE LET j == FirstAt(s, i + 2, "]")
                  IN  <<<<SubSeq(s, i + 2, j - 1), SubSeq(s, j + 2, k - 1)>>>>
                          \o FindImages(s, k + 1)

DOT_SLASH == <<".", "/">>
ASSET_PREFIX == <<"db", "/", "assets", "/", "images", "/", "posts", "/">>

\* if image_path.startswith('./'): image_path = image_path[2:]
StripDotSlash(image_path) ==
    IF StartsWith(image_path, DOT_SLASH)
    THEN SubSeq(image_path, 3, Len(image_path)) ELSE image_path

\* source_dir / image_path, relative to source_dir: pathlib drops '.' components
RECURSIVE FullImagePath(_)
FullImagePath(image_path) ==
    IF StartsWith(image_path, DOT_SLASH)
    THEN FullImagePath(SubSeq(image_path, 3, Len(image_path)))
    ELSE IF image_path = <<".">> THEN <<>> ELSE image_path

\* full_image_path.exists(): source_dir itself, its parent, or a file of imgs
PathExists(full, imgs) == full \in imgs \cup {<<>>, <<".", ".">>}

\* source_file_path.stem of a scanned file name, which ends with .md
Stem(filename) == SubSeq(filename, 1, Len(filename) - 2)

Embed(alt_text, path) == <<"!", "[">> \o alt_text \o <<"]", "(">> \o path \o <<")">>

\* The loop of process_images over matches[n..]: acc holds the processed content,
\* the asset names copied so far and the number of copy errors caught so far.  imgs are the regular
\* files next to the document; copy_ok is whether shutil.copy2 succeeds on them
\* (it raises on a directory).
RECURSIVE ImagesLoop(_, _, _, _, _, _)
ImagesLoop(matches, n, acc, stem, imgs, copy_ok) ==
    IF n > Len(matches) THEN acc
    ELSE LET alt_text == matches[n][1]
             image_path == StripDotSlash(matches[n][2])
             full == FullImagePath(image_path)
             image_filename == stem \o <<"_">> \o full
             \* shutil.copy2 raises on a directory, or when the environment says so
             copied == full \in imgs /\ copy_ok
             next == IF ~PathExists(full, imgs) THEN acc
                     ELSE IF copied
                     THEN [acc EXCEPT
                             !.content = Replace(acc.content,
                                             Embed(alt_text, image_path),
                                             Embed(alt_text, ASSET_PREFIX \o image_filename)),
                             !.copied = acc.copied \cup {image_filename}]
                     ELSE [acc EXCEPT !.copy_errors = acc.copy_errors + 1]
         IN  ImagesLoop(matches, n + 1, next, stem, imgs, copy_ok)

process_images(content, filename, imgs, copy_ok) ==
    ImagesLoop(FindImages(content, 1), 1, [content |-> content, copied |-> {}, copy_errors |-> 0],
               Stem(filename), imgs, copy_ok)

-----------------------------------------------------------------------------
(* process_links.                                                          *)

\* https?:// at position i
IsScheme(s, i) ==
    /\ i >= 1 /\ i + 3 <= Len(s)
    /\ s[i] = "h" /\ s[i + 1] = ":" /\ s[i + 2] = "/" /\ s[i + 3] = "/"

Anchor(url, text) == <<AOPEN>> \o url \o <<AMID>> \o text \o <<ACLOSE>>

\* bare_url_pattern = r'\[(https?://[^\]]+)\]' tried at i: index of the ] or 0
BareUrlEnd(s, i) ==
    IF s[i] = "[" /\ IsScheme(s, i + 1)
    THEN LET j == FirstAt(s, i + 5, "]")
         IN  IF j >= i + 6 THEN j ELSE 0
    ELSE 0

\* re.sub(bare_url_pattern, bare_url_replacer, content), from position i on
RECURSIVE BareUrlSub(_, _)
BareUrlSub(s, i) ==
    IF i > Len(s) THEN <<>>
    ELSE LET j == BareUrlEnd(s, i)
         IN  IF j = 0 THEN <<s[i]>> \o BareUrlSub(s, i + 1)
             ELSE LET url == SubSeq(s, i + 1, j - 1)
                  IN  Anchor(url, url) \o BareUrlSub(s, j + 1)

\* link_pattern = r'\[([^\]]+)\]\(([^)]+)\)' tried at i: <<index of ], index of )>>
\* or <<0, 0>>
LinkEnd(s, i) ==
    IF s[i] = "["
    THEN LET j == FirstAt(s, i + 1, "]")
         IN  IF j < i + 2 \/ j + 1 > Len(s) \/ s[j + 1] # "(" THEN <<0, 0>>
             ELSE LET k == FirstAt(s, j + 2, ")")
                  IN  IF k < j + 3 THEN <<0, 0>> ELSE <<j, k>>
    ELSE <<0, 0>>

\* link_replacer
link_replacer(text, url, whole) ==
    IF IsScheme(url, 1) THEN Anchor(url, text) ELSE whole

\* re.sub(link_pattern, link_replacer, content), from position i on
RECURSIVE LinkSub(_, _)
LinkSub(s, i) ==
    IF i > Len(s) THEN <<>>
    ELSE LET jk == LinkEnd(s, i)
         IN  IF jk[2] = 0 THEN <<s[i]>> \o LinkSub(s, i + 1)
             ELSE link_replacer(SubSeq(s, i + 1, jk[1] - 1),
                                SubSeq(s, jk[1] + 2, jk[2] - 1),
                                SubSeq(s, i, jk[2]))
                      \o LinkSub(s, jk[2] + 1)

\* [^\s<>\[\]"]
UrlChar(c) == c \notin SpaceToks \cup {"<", ">", "[", "]", QUOTE, AOPEN, AMID, ACLOSE}
\* (?<![\[<"\w]) fails after c: the last character of c is in the class
LookbehindBlocks(c) == c \in {"[", "<", QUOTE, AOPEN} \cup WordToks
\* (?![\]>"\w]) fails before c: the first character of c is in the class
LookaheadBlocks(c) == c \in {"]", ">", QUOTE, AMID} \cup WordToks

\* plain_url_pattern tried at i: the index of the last token of the match, or 0.
\* The greedy run gives characters back until the lookahead succeeds.
PlainUrlEnd(s, i) ==
    IF IsScheme(s, i) /\ (i = 1 \/ ~LookbehindBlocks(s[i - 1]))
    THEN LET E == {e \in (i + 4)..Len(s) :
                     /\ \A k \in (i + 4)..e : UrlChar(s[k])
                     /\ (e = Len(s) \/ ~LookaheadBlocks(s[e + 1]))}
         IN  IF E = {} THEN 0 ELSE Max(E)
    ELSE 0

\* the start positions of the matches of plain_url_pattern, from position i on
RECURSIVE PlainUrlMatches(_, _)
PlainUrlMatches(s, i) ==
    IF i > Len(s) THEN {}
    ELSE LET e == PlainUrlEnd(s, i)
         IN  IF e = 0 THEN PlainUrlMatches(s, i + 1)
             ELSE {i} \cup PlainUrlMatches(s, e + 1)

\* re.sub(plain_url_pattern, plain_url_replacer, content), from position i on
RECURSIVE PlainUrlSub(_, _)
PlainUrlSub(s, i) ==
    IF i > Len(s) THEN <<>>
    ELSE LET e == PlainUrlEnd(s, i)
         IN  IF e = 0 THEN <<s[i]>> \o PlainUrlSub(s, i + 1)
             ELSE LET url == SubSeq(s, i, e)
                  IN  Anchor(url, url) \o PlainUrlSub(s, e + 1)

process_links(content) == PlainUrlSub(LinkSub(BareUrlSub(content, 1), 1), 1)

-----------------------------------------------------------------------------
(* The function-level specification of process_links.                      *)

SCHEME == <<"h", ":", "/", "/">>
LinkPieces == {<<"a">>, <<".">>, <<" ">>, <<"[">>, <<"]">>, <<"(">>, <<")">>, SCHEME}

InitLinks ==
    /\ pc = "call_links"
    /\ arg \in {Flatten(p) : p \in SeqUpTo(LinkPieces, MaxPieces)}
    /\ ret = <<>>
    /\ runs = 0 /\ now = 0 /\ md_left = 0
    /\ db_file = [kind |-> "absent"] /\ post_files = <<>> /\ index_files = <<>>
    /\ assets_dir = {} /\ existing_posts = <<>> /\ hist = <<>>

CallLinks ==
    /\ pc = "call_links"
    /\ ret' = process_links(arg)
    /\ pc' = "links_done"
    /\ UNCHANGED <<arg, diskVars, runVars>>

SpecLinks == InitLinks /\ [][CallLinks]_vars

\* the number of tokens t of s[1..i-1] that are tok
CountBefore(s, i, tok) == Cardinality({k \in 1..(i - 1) : s[k] = tok})

\* position i of s lies inside an anchor: after an AOPEN that no ACLOSE has closed
InsideAnchor(s, i) == CountBefore(s, i, AOPEN) > CountBefore(s, i, ACLOSE)

\* C6: the bare-URL pass never wraps a URL that sits inside the href or the
\* visible text of an anchor emitted by the first two passes, so that in the
\* result no anchor lies inside another anchor.
C6_NoRematch ==
    pc = "links_done" =>
        LET after2 == LinkSub(BareUrlSub(arg, 1), 1)
        IN  /\ \A i \in PlainUrlMatches(after2, 1) : ~InsideAnchor(after2, i)
            /\ \A i \in 1..Len(ret) : ret[i] = AOPEN => ~InsideAnchor(ret, i)

-----------------------------------------------------------------------------
(* The function-level specification of process_images.                     *)

IMG_OPEN == <<"!", "[", "a", "]", "(">>
ImagePieces == {<<"a">>, <<" ">>, IMG_OPEN, DOT_SLASH, <<"b">>, <<")">>}
ImageFiles == {<<"b">>}
DocName == <<"a", ".", "md">>

InitImages ==
    /\ pc = "call_images"
    /\ arg \in {[content |-> Flatten(p), filename |-> DocName, imgs |-> i, copy_ok |-> c] :
                    p \in SeqUpTo(ImagePieces, MaxImagePieces),
                    i \in SUBSET ImageFiles, c \in BOOLEAN}
    /\ ret = <<>>
    /\ runs = 0 /\ now = 0 /\ md_left = 0
    /\ db_file = [kind |-> "absent"] /\ post_files = <<>> /\ index_files = <<>>
    /\ assets_dir = {} /\ existing_posts = <<>> /\ hist = <<>>

CallImages ==
    /\ pc = "call_images"
    /\ ret' = process_images(arg.content, arg.filename, arg.imgs, arg.copy_ok)
    /\ assets_dir' = assets_dir \cup ret'.copied
    /\ pc' = "images_done"
    /\ UNCHANGED <<arg, db_file, post_files, index_files, runVars>>

SpecImages == InitImages /\ [][CallImages]_vars

Contains(s, sub) ==
    \E i \in 1..(Len(s) - Len(sub) + 1) : SubSeq(s, i, i + Len(sub) - 1) = sub

\* C2: for every embed ![alt](./img) of the body whose img exists next to the
\* document (and can be copied), process_images copies the image to the asset
\* directory as <stem>_<img> and rewrites the embed in the returned body to
\* db/assets/images/posts/<stem>_<img>, so that the ./img embed is gone.
C2_DotSlashEmbedRewritten ==
    pc = "images_done" =>
        LET found == FindImages(arg.content, 1)
        IN  \A n \in 1..Len(found) :
                LET alt == found[n][1]
                    path == found[n][2]
                    img == SubSeq(path, 3, Len(path))
                    name == Stem(arg.filename) \o <<"_">> \o img
                IN  (StartsWith(path, DOT_SLASH) /\ img \in arg.imgs /\ arg.copy_ok) =>
                        /\ name \in assets_dir
                        /\ Contains(ret.content, Embed(alt, ASSET_PREFIX \o name))
                        /\ ~Contains(ret.content, Embed(alt, path))

-----------------------------------------------------------------------------
(* The catalog: self.existing_posts is a dict, which keeps insertion order. *)
(* It is modelled as the sequence of its values; the keys are their ids.   *)

Ids(posts) == {posts[i].id : i \in 1..Len(posts)}
Get(posts, id) == posts[CHOOSE i \in 1..Len(posts) : posts[i].id = id]

\* self.existing_posts[post['id']] = post
Put(posts, post) ==
    IF post.id \in Ids(posts)
    THEN [i \in 1..Len(posts) |-> IF posts[i].id = post.id THEN post ELSE posts[i]]
    ELSE Append(posts, post)

\* The documents of the source tree: a file name, the content, and what the
\* file system does to the reads of the document.
DocBodies == << <<"a">>, Embed(<<"a">>, <<"b">>), <<"[">> \o SCHEME \o <<"a", "]">> >>
Filenames == {<<"a", ".", "md">>, <<"!", ".", "md">>}
Failures == {"none", "read", "hash", "copy"}
Docs == {[filename |-> f, content |-> DocBodies[b], fail |-> x] :
            f \in Filenames, b \in 1..Len(DocBodies), x \in Failures}

\* hashlib.sha256(f.read()).hexdigest(): one value per content
calculate_file_hash(content) ==
    CHOOSE b \in 1..Len(DocBodies) : DocBodies[b] = content

\* extract_excerpt returns the full processed content
extract_excerpt(content) == content

\* The post process_markdown_file builds for a document it has read and hashed
NewPost(doc, file_hash, processed_content, clock) ==
    LET title == extract_title_from_filename(doc.filename)
        created_at == clock
    IN  [id |-> file_hash,
         title |-> title,
         excerpt |-> extract_excerpt(processed_content),
         content |-> processed_content,
         filename |-> doc.filename,
         slug |-> create_slug_from_title(title, created_at, clock),
         created_at |-> created_at,
         updated_at |-> created_at]

\* process_markdown_file as it would be with the duplicate check on the file name
process_markdown_file_by_filename(doc, imgs, posts, clock) ==
    IF doc.fail \in {"read", "hash"}
    THEN [outcome |-> "error", copied |-> {}, copy_errors |-> 0]
    ELSE IF \E i \in 1..Len(posts) : posts[i].filename = doc.filename
    THEN [outcome |-> "skip", copied |-> {}, copy_errors |-> 0]
    ELSE LET images == process_images(doc.content, doc.filename, imgs, doc.fail # "copy")
         IN  [outcome |-> "new", copied |-> images.copied,
              copy_errors |-> images.copy_errors,
              post |-> NewPost(doc, calculate_file_hash(doc.content),
                               process_links(images.content), clock)]

\* process_markdown_file as it would be without the try/except around the copy:
\* a copy error reaches the handler of process_markdown_file
process_markdown_file_copy_fatal(doc, imgs, posts, clock) ==
    IF doc.fail \in {"read", "hash"}
    THEN [outcome |-> "error", copied |-> {}, copy_errors |-> 0]
    ELSE IF calculate_file_hash(doc.content) \in Ids(posts)
    THEN [outcome |-> "skip", copied |-> {}, copy_errors |-> 0]
    ELSE LET images == process_images(doc.content, doc.filename, imgs, doc.fail # "copy")
         IN  IF images.copy_errors > 0
             THEN [outcome |-> "error", copied |-> images.copied,
                   copy_errors |-> images.copy_errors]
             ELSE [outcome |-> "new", copied |-> images.copied,
                   copy_errors |-> images.copy_errors,
                   post |-> NewPost(doc, calculate_file_hash(doc.content),
                                    process_links(images.content), clock)]

\* process_markdown_file: outcome "new" with the post, "skip" for a known hash,
\* "error" when an exception reached the handler of the function
process_markdown_file(doc, imgs, posts, clock) ==
    IF doc.fail \in {"read", "hash"}
    THEN [outcome |-> "error", copied |-> {}, copy_errors |-> 0]
    ELSE LET file_hash == calculate_file_hash(doc.content)
         IN  IF file_hash \in Ids(posts)
             THEN [outcome |-> "skip", copied |-> {}, copy_errors |-> 0]
             ELSE LET images == process_images(doc.content, doc.filename, imgs,
                                               doc.fail # "copy")
                      processed_content == process_links(images.content)
                  IN  [outcome |-> "new",
                       copied |-> images.copied,
                       copy_errors |-> images.copy_errors,
                       post |-> NewPost(doc, file_hash, processed_content, clock)]

\* load_existing_database: the loop over data.get('posts', []) from entry n on;
\* an entry without 'id' raises KeyError, which ends the loop
RECURSIVE LoadLoop(_, _, _)
LoadLoop(entries, n, posts) ==
    IF n > Len(entries) THEN [posts |-> posts, failed |-> FALSE]
    ELSE IF "id" \notin DOMAIN entries[n] THEN [posts |-> posts, failed |-> TRUE]
    ELSE LoadLoop(entries, n + 1, Put(posts, entries[n]))

load_existing_database(file, posts) ==
    CASE file.kind = "absent" -> [posts |-> posts, failed |-> FALSE]
      [] file.kind = "invalid" -> [posts |-> posts, failed |-> TRUE]
      [] file.kind = "ok" -> LoadLoop(file.posts, 1, posts)

\* if 'slug' not in post: post['slug'] = create_slug_from_title(...)
EnsureSlug(post, clock) ==
    IF "slug" \in DOMAIN post THEN post
    ELSE [f \in DOMAIN post \cup {"slug"} |->
            IF f = "slug" THEN create_slug_from_title(post.title, post.created_at, clock)
            ELSE post[f]]

\* save_database as it would be with the slugs attached before the dump
save_database_with_slugs(posts, clock) ==
    [kind |-> "ok", posts |-> [i \in 1..Len(posts) |-> EnsureSlug(posts[i], clock)],
     total_posts |-> Len(posts), last_updated |-> clock]

\* save_database as it would be dumping self.posts, the list __init__ leaves empty
save_database_self_posts(posts, clock) ==
    [kind |-> "ok", posts |-> <<>>, total_posts |-> 0, last_updated |-> clock]

\* the data save_database dumps to posts.db
save_database(posts, clock) ==
    [kind |-> "ok", posts |-> posts, total_posts |-> Len(posts), last_updated |-> clock]

\* the post_<id>.json files create_individual_json_files leaves
create_individual_json_files(posts, clock) ==
    [id \in Ids(posts) |-> [post |-> Get(posts, id), last_updated |-> clock]]

\* all_posts.sort(key=lambda x: x['created_at'], reverse=True): a stable sort,
\* so posts of equal created_at keep their order
RECURSIVE SortNewestFirst(_)
SortNewestFirst(posts) ==
    IF posts = <<>> THEN <<>>
    ELSE LET x == posts[Len(posts)]
             rest == SortNewestFirst(SubSeq(posts, 1, Len(posts) - 1))
             k == Cardinality({i \in 1..Len(rest) : rest[i].created_at >= x.created_at})
         IN  SubSeq(rest, 1, k) \o <<x>> \o SubSeq(rest, k + 1, Len(rest))

\* the lightweight version of a post for the index
Lightweight(post) ==
    [id |-> post.id, title |-> post.title, excerpt |-> post.excerpt,
     filename |-> post.filename, slug |-> post.slug, created_at |-> post.created_at]

posts_per_page == 10

\* the page count without the rounding up
total_pages_floor(total_posts) == total_posts \div posts_per_page

total_pages_of(total_posts) == (total_posts + posts_per_page - 1) \div posts_per_page

\* page_data of page page_num (counted from 0, as in the source)
page_data(posts_list, page_num, clock) ==
    LET total_posts == Len(posts_list)
        total_pages == total_pages_of(total_posts)
        start_idx == page_num * posts_per_page
        end_idx == IF start_idx + posts_per_page < total_posts
                   THEN start_idx + posts_per_page ELSE total_posts
    IN  [posts |-> SubSeq(posts_list, start_idx + 1, end_idx),
         page |-> page_num + 1,
         total_pages |-> total_pages,
         total_posts |-> total_posts,
         posts_per_page |-> posts_per_page,
         has_next |-> page_num + 1 < total_pages,
         has_prev |-> page_num > 0,
         next_page |-> IF page_num + 1 < total_pages THEN page_num + 2 ELSE 0,
         prev_page |-> IF page_num > 0 THEN page_num ELSE 0,
         last_updated |-> clock]

\* The index files after create_paginated_index_files: the index_<n>.json files
\* are deleted, index.json (page 1) is not; then every page is written.  A
\* next_page or prev_page of 0 stands for None.
create_paginated_index_files(posts, old_files, clock) ==
    LET all_posts == SortNewestFirst(posts)
        posts_list == [i \in 1..Len(all_posts) |-> Lightweight(EnsureSlug(all_posts[i], clock))]
        total_pages == total_pages_of(Len(posts_list))
        kept == DOMAIN old_files \cap {1}
    IN  [n \in kept \cup 1..total_pages |->
            IF n \in 1..total_pages THEN page_data(posts_list, n - 1, clock)
            ELSE old_files[n]]

-----------------------------------------------------------------------------
(* The disk before the first run: any posts.db, with or without derived    *)
(* files of an earlier generation.                                         *)

LegacyPost(id, created_at) ==
    [id |-> id, title |-> <<"a">>, excerpt |-> <<"a">>, content |-> <<"a">>,
     filename |-> <<"a", ".", "md">>, created_at |-> created_at,
     updated_at |-> created_at]

FullPost(id, created_at) ==
    [id |-> id, title |-> <<"b">>, excerpt |-> <<"b">>, content |-> <<"b">>,
     filename |-> <<"b", ".", "md">>, slug |-> <<"b", "-">> \o strftime(created_at),
     created_at |-> created_at, updated_at |-> created_at]

\* a post entry without 'id'
NoIdEntry == [title |-> <<"a">>]

DbOf(entries) ==
    [kind |-> "ok", posts |-> entries, total_posts |-> Len(entries), last_updated |-> 0]

InitDbFiles ==
    {[kind |-> "absent"], [kind |-> "invalid"], DbOf(<<>>),
     DbOf(<<LegacyPost(1, 0)>>),
     DbOf(<<LegacyPost(1, 0), NoIdEntry>>),
     DbOf(<<NoIdEntry, LegacyPost(1, 0)>>),
     DbOf(<<LegacyPost(9, -1), FullPost(8, 0)>>)}

StalePostFiles == [id \in {7} |-> [post |-> FullPost(7, 0), last_updated |-> 0]]
StaleIndexFiles ==
    [n \in {1, 2} |->
        page_data([i \in 1..11 |-> Lightweight(FullPost(7, 0))], n - 1, 0)]

\* A scanned document with the image files next to it (image files next to a
\* document without an embed are left out: nothing reads them).
Sources ==
    {src \in [doc : Docs, imgs : SUBSET ImageFiles] :
        src.imgs = {} \/ FindImages(src.doc.content, 1) # <<>>}

IdsInFile(file) ==
    IF file.kind = "ok"
    THEN {file.posts[i].id : i \in {k \in 1..Len(file.posts) : "id" \in DOMAIN file.posts[k]}}
    ELSE {}

SluglessIds(posts) ==
    {posts[i].id : i \in {k \in 1..Len(posts) : "slug" \notin DOMAIN posts[k]}}

NoLast == [outcome |-> "none"]

InitHist ==
    [stage |-> "none", db_at_start |-> [kind |-> "absent"], loaded |-> <<>>,
     load_failed |-> FALSE, new_ids |-> {}, all_known |-> TRUE, ok_hashes |-> {},
     raised |-> FALSE, copy_raised |-> FALSE, skipped_renamed |-> FALSE,
     last |-> NoLast, written |-> {}, created |-> {}, recreated |-> FALSE,
     slugless |-> {}]

Init ==
    /\ pc = "idle"
    /\ runs = 0
    /\ now = 1
    /\ db_file \in InitDbFiles
    /\ \/ post_files = <<>> /\ index_files = <<>>
       \/ post_files = StalePostFiles /\ index_files = StaleIndexFiles
    /\ assets_dir = {}
    /\ existing_posts = <<>>
    /\ md_left = 0
    /\ hist = InitHist
    /\ arg = <<>>
    /\ ret = <<>>

-----------------------------------------------------------------------------
(* run(), stage by stage.  pc is the stage the process executes next.  hist *)
(* records what the run has seen; it is not state of the program.          *)

\* main(): MarkdownProcessor(source_dir, db_dir) and the start of run()
Main ==
    /\ pc = "idle"
    /\ runs < MaxRuns
    /\ runs' = runs + 1
    /\ existing_posts' = <<>>
    /\ pc' = "load"
    /\ hist' = [hist EXCEPT !.stage = "running", !.db_at_start = db_file,
                            !.loaded = <<>>, !.load_failed = FALSE, !.new_ids = {},
                            !.all_known = TRUE, !.ok_hashes = {}, !.raised = FALSE,
                            !.copy_raised = FALSE, !.skipped_renamed = FALSE,
                            !.last = NoLast]
    /\ UNCHANGED <<now, md_left, diskVars, arg, ret>>

LoadExistingDatabase ==
    /\ pc = "load"
    /\ \E r \in {load_existing_database(db_file, existing_posts)} :
           /\ existing_posts' = r.posts
           /\ hist' = [hist EXCEPT !.loaded = r.posts, !.load_failed = r.failed,
                                   !.slugless = @ \cup SluglessIds(r.posts)]
    /\ pc' = "scan"
    /\ UNCHANGED <<runs, now, md_left, diskVars, arg, ret>>

\* scan_markdown_files and the early return of run() when nothing is found
ScanMarkdownFiles ==
    /\ pc = "scan"
    /\ \E n \in 0..MaxDocs :
        /\ md_left' = n
        /\ IF n = 0
           THEN pc' = "idle" /\ hist' = [hist EXCEPT !.stage = "no_files"]
           ELSE pc' = "process" /\ hist' = hist
    /\ UNCHANGED <<runs, now, existing_posts, diskVars, arg, ret>>

\* one iteration of the loop of run() over md_files
ProcessMarkdownFile ==
    /\ pc = "process"
    /\ \E src \in Sources :
        \E doc \in {src.doc},
           r \in {process_markdown_file(src.doc, src.imgs, existing_posts, now)},
           h \in {calculate_file_hash(src.doc.content)} :
            /\ existing_posts' = IF r.outcome = "new" THEN Put(existing_posts, r.post)
                                 ELSE existing_posts
            /\ assets_dir' = assets_dir \cup r.copied
            /\ now' = IF r.outcome = "new" THEN now + 1 ELSE now
            /\ hist' = [hist EXCEPT
                 !.last = [outcome |-> r.outcome,
                           unreadable |-> doc.fail \in {"read", "hash"},
                           known |-> h \in Ids(existing_posts),
                           copy_errors |-> r.copy_errors,
                           added |-> existing_posts' # existing_posts],
                 !.new_ids = IF r.outcome = "new" THEN @ \cup {h} ELSE @,
                 !.all_known = @ /\ h \in IdsInFile(hist.db_at_start),
                 !.skipped_renamed = @ \/ /\ r.outcome = "skip"
                                          /\ Get(existing_posts, h).filename # doc.filename,
                 !.ok_hashes = IF doc.fail \in {"read", "hash"} THEN @ ELSE @ \cup {h},
                 !.raised = @ \/ doc.fail \in {"read", "hash"},
                 !.copy_raised = @ \/ r.copy_errors > 0,
                 !.created = IF r.outcome = "new" THEN @ \cup {h} ELSE @,
                 !.recreated = @ \/ (r.outcome = "new" /\ h \in hist.created)]
    /\ md_left' = md_left - 1
    /\ pc' = IF md_left = 1 THEN "save" ELSE "process"
    /\ UNCHANGED <<runs, db_file, post_files, index_files, arg, ret>>

SaveDatabase ==
    /\ pc = "save"
    /\ db_file' = save_database(existing_posts, now)
    /\ hist' = [hist EXCEPT !.last = NoLast, !.written = @ \cup Ids(existing_posts)]
    /\ pc' = "individual"
    /\ UNCHANGED <<runs, now, existing_posts, md_left, post_files, index_files,
                   assets_dir, arg, ret>>

CreateIndividualJsonFiles ==
    /\ pc = "individual"
    /\ post_files' = create_individual_json_files(existing_posts, now)
    /\ pc' = "index"
    /\ UNCHANGED <<runVars, db_file, index_files, assets_dir, arg, ret>>

\* create_paginated_index_files, which also attaches the missing slugs to the
\* posts in memory, and the end of run()
CreatePaginatedIndexFiles ==
    /\ pc = "index"
    /\ index_files' = create_paginated_index_files(existing_posts, index_files, now)
    /\ existing_posts' = [i \in 1..Len(existing_posts) |-> EnsureSlug(existing_posts[i], now)]
    /\ hist' = [hist EXCEPT !.stage = "complete"]
    /\ pc' = "idle"
    /\ UNCHANGED <<runs, now, md_left, db_file, post_files, assets_dir, arg, ret>>

Next ==
    \/ Main
    \/ LoadExistingDatabase
    \/ ScanMarkdownFiles
    \/ ProcessMarkdownFile
    \/ SaveDatabase
    \/ CreateIndividualJsonFiles
    \/ CreatePaginatedIndexFiles

Spec == Init /\ [][Next]_vars

-----------------------------------------------------------------------------
(* Properties of run().                                                    *)

RunComplete == pc = "idle" /\ hist.stage = "complete"

\* posts.db parses and every entry of its posts list has an id
Loadable(file) ==
    /\ file.kind = "ok"
    /\ \A i \in 1..Len(file.posts) : "id" \in DOMAIN file.posts[i]

DistinctIds(posts) ==
    \A i, j \in 1..Len(posts) : posts[i].id = posts[j].id => i = j

\* C1: no record is created for a document whose hash is already a key of the
\* catalog, whatever its file name; no content gets a record created twice
\* across runs; the catalog holds one record per id; and a run whose scanned
\* documents are all in the aggregate leaves the aggregate's record count as it was.
C1_ContentDedup ==
    /\ hist.last.outcome # "none" /\ hist.last.known => hist.last.outcome # "new"
    /\ ~hist.recreated
    /\ DistinctIds(existing_posts)
    /\ (RunComplete /\ Loadable(hist.db_at_start) /\ hist.all_known) =>
          /\ hist.new_ids = {}
          /\ Len(db_file.posts) = Len(hist.db_at_start.posts)

\* a second run has skipped a known document stored under another file name
C1_Witness ==
    /\ RunComplete /\ runs = 2
    /\ hist.skipped_renamed
    /\ Loadable(hist.db_at_start)
    /\ hist.all_known
    /\ Len(db_file.posts) >= 2

\* C4: after load_existing_database has failed on a malformed aggregate file,
\* existing_posts is empty, entries before the bad one included.
C4_FailedLoadLeavesEmptyCatalog ==
    (pc = "scan" /\ hist.load_failed) => existing_posts = <<>>

\* the ids of the index entries of page n of the index files
PageIds(n) == {index_files[n].posts[i].id : i \in 1..Len(index_files[n].posts)}

\* C5: after every invocation of run(), also one whose scan found nothing, the
\* per-record files and the index pages on disk are exactly those of the
\* in-memory catalog of that run.
C5_DerivedFilesFollowCatalog ==
    (pc = "idle" /\ runs >= 1) =>
        /\ DOMAIN post_files = Ids(existing_posts)
        /\ DOMAIN index_files = 1..total_pages_of(Len(existing_posts))
        /\ UNION {PageIds(n) : n \in DOMAIN index_files} = Ids(existing_posts)

\* C8, as stated: the aggregate a run writes holds the union of the records that
\* were in the aggregate file before the run and the records the run processed.
C8_UnionOfFileAndNew ==
    pc = "individual" =>
        /\ Ids(db_file.posts) = IdsInFile(hist.db_at_start) \cup hist.new_ids
        /\ db_file.total_posts = Cardinality(IdsInFile(hist.db_at_start) \cup hist.new_ids)

\* C8, amended: the aggregate a run writes holds the union, keyed by id, of the
\* records load_existing_database loaded (all records of the file when every
\* entry of it loads) and the records the run processed, with total_posts that
\* count; and no record a run has written to the aggregate is absent later.
C8_UnionOfLoadedAndNew ==
    /\ pc = "individual" =>
          /\ db_file.kind = "ok"
          /\ DistinctIds(db_file.posts)
          /\ Ids(db_file.posts) = Ids(hist.loaded) \cup hist.new_ids
          /\ db_file.total_posts = Cardinality(Ids(hist.loaded) \cup hist.new_ids)
          /\ \A i \in 1..Len(hist.loaded) :
                Get(db_file.posts, hist.loaded[i].id) = hist.loaded[i]
          /\ Loadable(hist.db_at_start) =>
                \A i \in 1..Len(hist.db_at_start.posts) :
                    hist.db_at_start.posts[i].id \in Ids(db_file.posts)
    /\ hist.written \subseteq IdsInFile(db_file)

C8_Witness ==
    /\ pc = "individual" /\ runs = 2
    /\ hist.loaded # <<>> /\ hist.new_ids # {}
    /\ hist.written # {}

AllIndexEntries ==
    UNION {{index_files[n].posts[i] : i \in 1..Len(index_files[n].posts)} :
              n \in DOMAIN index_files}

\* the entry of id in the posts list of the aggregate file
FileEntry(file, id) ==
    file.posts[CHOOSE i \in 1..Len(file.posts) :
                  "id" \in DOMAIN file.posts[i] /\ file.posts[i].id = id]

\* C10: a record loaded without a slug gets its slug in the index pages only
\* (every index entry has a slug): the aggregate and the record's per-record
\* file written in the same run do not hold it, the copy in memory does after
\* the index stage, and in no later run does the aggregate's record get a slug.
C10_SlugOnlyInIndex ==
    /\ \A id \in hist.slugless \cap IdsInFile(db_file) :
          "slug" \notin DOMAIN FileEntry(db_file, id)
    /\ \A e \in AllIndexEntries : "slug" \in DOMAIN e /\ Len(e.slug) >= 8
    /\ RunComplete =>
          \A id \in SluglessIds(hist.loaded) :
              /\ "slug" \notin DOMAIN post_files[id].post
              /\ "slug" \in DOMAIN Get(existing_posts, id)
              /\ \E e \in AllIndexEntries :
                    /\ e.id = id
                    /\ e.slug = Get(existing_posts, id).slug
                    /\ e.slug = create_slug_from_title(e.title, e.created_at, now)

C10_Witness ==
    /\ RunComplete /\ runs = 2
    /\ SluglessIds(hist.loaded) # {}
    /\ hist.new_ids # {}
    /\ hist.written \cap hist.slugless # {}

-----------------------------------------------------------------------------
(* The function-level specification of create_paginated_index_files.       *)

PagePatterns == {<<1, 100>>, <<0, 1>>, <<3, 7>>, <<5, 4>>}

PageCatalog(n, pat) ==
    [i \in 1..n |->
        IF i % 3 = 0 THEN LegacyPost(i, (i * pat[1]) % pat[2])
        ELSE FullPost(i, (i * pat[1]) % pat[2])]

InitPages ==
    /\ pc = "index"
    /\ runs = 1
    /\ now = 1
    /\ existing_posts \in {PageCatalog(n, pat) : n \in 0..MaxPosts, pat \in PagePatterns}
    /\ db_file = save_database(existing_posts, now)
    /\ post_files = create_individual_json_files(existing_posts, now)
    /\ index_files \in {<<>>, StaleIndexFiles}
    /\ assets_dir = {}
    /\ md_left = 0
    /\ hist = [InitHist EXCEPT !.stage = "running", !.loaded = existing_posts]
    /\ arg = <<>>
    /\ ret = <<>>

SpecPages == InitPages /\ [][CreatePaginatedIndexFiles]_vars

\* the entry at position g (from 1) of the pages read one after the other
EntryAt(g) == index_files[((g - 1) \div 10) + 1].posts[((g - 1) % 10) + 1]

\* C7: for n records create_paginated_index_files writes ceil(n/10) pages, the
\* consecutive slices of 10 of the records newest first, every record on one
\* page, each page with total_pages, total_posts, has_prev, has_next, prev_page
\* and next_page as its number says (0 stands for null).
C7_Pagination ==
    RunComplete =>
        LET n == Len(existing_posts)
            pages == IF n % 10 = 0 THEN n \div 10 ELSE (n \div 10) + 1
        IN  /\ DOMAIN index_files \ {1} = 2..pages
            /\ n > 0 => 1 \in DOMAIN index_files
            /\ \A p \in 1..pages :
                  /\ index_files[p].page = p
                  /\ index_files[p].total_pages = pages
                  /\ index_files[p].total_posts = n
                  /\ index_files[p].has_prev = (p > 1)
                  /\ index_files[p].has_next = (p < pages)
                  /\ index_files[p].prev_page = (IF p = 1 THEN 0 ELSE p - 1)
                  /\ index_files[p].next_page = (IF p = pages THEN 0 ELSE p + 1)
                  /\ Len(index_files[p].posts) = (IF p < pages THEN 10 ELSE n - 10 * (pages - 1))
            /\ \A g, k \in 1..n : g < k => EntryAt(g).created_at >= EntryAt(k).created_at
            /\ {EntryAt(g).id : g \in 1..n} = Ids(existing_posts)

C7_Witness ==
    /\ RunComplete
    /\ Len(existing_posts) = 21
    /\ DOMAIN index_files = 1..3
    /\ Len(index_files[3].posts) = 1
    /\ \E i \in 1..20 : existing_posts[i].created_at < existing_posts[i + 1].created_at

====
